---- MODULE Spec2Model ----
(***************************************************************************)
(* Model of src/scraper.py: the paginated Text Search aggregation          *)
(* (GooglePlacesScraper.search_places), the per-website e-mail discovery   *)
(* (scrape_email_from_website) and the two enrichment loops                *)
(* (GooglePlacesScraper.enrich_with_details with get_place_details, and    *)
(* enrich_with_emails). Each function has its own specification; the       *)
(* variables of the functions that are not called keep their idle values.  *)
(*                                                                         *)
(* Python strings the code takes apart (names, keywords, hrefs, e-mail     *)
(* addresses) are sequences of one-character strings, so that lower(),     *)
(* strip(), "in", startswith(), endswith(), split() and rsplit() are       *)
(* computed and not assumed.                                               *)
(***************************************************************************)
EXTENDS Integers, Sequences, FiniteSets, TLC

\* ------------------------------------------------------------------------
\* Bounds of the model (not program constants)
\* ------------------------------------------------------------------------
MaxCap == 2
MaxPageLen == 2
MaxRequests == 4
MaxHrefs == 2
MaxMatches == 2
MaxPlaces == 2

\* ------------------------------------------------------------------------
\* Python str operations on sequences of characters
\* ------------------------------------------------------------------------
UpperChars == <<"A", "B", "C", "D", "E", "F", "G", "H", "I", "J", "K", "L", "M",
                "N", "O", "P", "Q", "R", "S", "T", "U", "V", "W", "X", "Y", "Z">>
LowerChars == <<"a", "b", "c", "d", "e", "f", "g", "h", "i", "j", "k", "l", "m",
                "n", "o", "p", "q", "r", "s", "t", "u", "v", "w", "x", "y", "z">>
Whitespace == {" ", "\t", "\n"}

\* str.lower() on one character
ToLower ==
    [c \in {UpperChars[k] : k \in 1..Len(UpperChars)} |->
        LowerChars[CHOOSE k \in 1..Len(UpperChars) : UpperChars[k] = c]]
LowerChar(c) == IF c \in DOMAIN ToLower THEN ToLower[c] ELSE c

\* str.lower()
Lower(s) == [k \in 1..Len(s) |-> LowerChar(s[k])]

\* str.strip()
Strip(s) ==
    LET keep == {k \in 1..Len(s) : s[k] \notin Whitespace}
    IN  IF keep = {} THEN <<>>
        ELSE LET lo == CHOOSE k \in keep : \A j \in keep : k <= j
                 hi == CHOOSE k \in keep : \A j \in keep : k >= j
             IN  SubSeq(s, lo, hi)

\* sub in s
Contains(sub, s) ==
    \E k \in 0..(Len(s) - Len(sub)) : SubSeq(s, k + 1, k + Len(sub)) = sub

\* s.startswith(prefix)
StartsWith(s, prefix) ==
    Len(prefix) <= Len(s) /\ SubSeq(s, 1, Len(prefix)) = prefix

\* s.endswith(suffix)
EndsWith(s, suffix) ==
    Len(suffix) <= Len(s) /\ SubSeq(s, Len(s) - Len(suffix) + 1, Len(s)) = suffix

\* s.split(sep)[0] for a one-character sep: everything before the first sep
SplitFirst(s, sep) ==
    IF \E k \in 1..Len(s) : s[k] = sep
    THEN LET p == CHOOSE k \in 1..Len(s) :
                      s[k] = sep /\ \A j \in 1..(k - 1) : s[j] # sep
         IN  SubSeq(s, 1, p - 1)
    ELSE s

\* s.rsplit(sep, 1)[1] for a one-character sep that occurs in s:
\* everything after the last sep
RSplitLast(s, sep) ==
    LET p == CHOOSE k \in 1..Len(s) :
                 s[k] = sep /\ \A j \in (k + 1)..Len(s) : s[j] # sep
    IN  SubSeq(s, p + 1, Len(s))

\* s[n:]
DropFirst(s, n) == IF n >= Len(s) THEN <<>> ELSE SubSeq(s, n + 1, Len(s))

\* s[:n] for n >= 0
TakeFirst(s, n) == IF n >= Len(s) THEN s ELSE SubSeq(s, 1, n)

\* the elements of a sequence
Range(s) == {s[k] : k \in 1..Len(s)}

\* the sequences over S of length at most n
SeqUpTo(S, n) == UNION {[1..k -> S] : k \in 0..n}

\* ------------------------------------------------------------------------
\* GooglePlacesScraper.search_places: constants and values
\* ------------------------------------------------------------------------
\* "maxResultCount": 20, the fixed page size of the Text Search request
PageSize == 20
\* the docstring's page limit: "jusqu'a 3 pages x 20 = 60 resultats max"
MaxPages == 3

\* dict.get on a missing key / a None value
NoId == ""
NoCount == 0 - 1
NoToken == "None"
Tokens == {"t1", "t2"}

NameCafe == <<"C", "a", "f", "e">>
NameKfc == <<"L", "y", "o", "n", " ", "K", "F", "C">>

\* a place of a search response: the "id", displayName.text and
\* userRatingCount keys (NoId, <<>> and NoCount when the key is missing)
Place(i, n, r) == [id |-> i, name |-> n, reviews |-> r]

PlacePool ==
    { Place("a", NameCafe, 2), Place("a", NameKfc, 2),
      Place("b", NameCafe, NoCount), Place("b", NameCafe, 1),
      Place(NoId, NameCafe, 2) }

\* pages the endpoint may serve: short pages over PlacePool ...
SmallPages == SeqUpTo(PlacePool, MaxPageLen)

\* ... or full pages of PageSize places with fresh ids (k-th block)
FullPage(k) == [j \in 1..PageSize |-> Place(ToString(k * PageSize + j), <<>>, NoCount)]
FullPages == {FullPage(k) : k \in 0..(MaxRequests - 1)} \cup {<<>>}

\* what the endpoint serves in this run: "short" or "full" pages
Catalog(kind) == IF kind = "full" THEN FullPages ELSE SmallPages

\* the excluded_keywords argument, as typed by the user (one per line)
KeywordLists ==
    { <<>>,
      << <<" ", " ">>, <<" ", "K", "f", "c", " ">> >>,
      << <<"c", "a", "f", "e">> >> }

\* HTTP statuses the search endpoint may answer with
Statuses == {200, 300, 429, 500}

ApiLabel == "Erreur Google Places API"
NetworkLabel == "Erreur reseau"

\* ------------------------------------------------------------------------
\* scrape_email_from_website: constants and values
\* ------------------------------------------------------------------------
_GENERIC_PREFIXES ==
    { <<"n", "o", "r", "e", "p", "l", "y">>,
      <<"n", "o", "-", "r", "e", "p", "l", "y">>,
      <<"d", "o", "n", "o", "t", "r", "e", "p", "l", "y">>,
      <<"d", "o", "-", "n", "o", "t", "-", "r", "e", "p", "l", "y">>,
      <<"p", "o", "s", "t", "m", "a", "s", "t", "e", "r">>,
      <<"m", "a", "i", "l", "e", "r", "-", "d", "a", "e", "m", "o", "n">>,
      <<"b", "o", "u", "n", "c", "e">>,
      <<"w", "e", "b", "m", "a", "s", "t", "e", "r">> }

_DOMAIN_BLACKLIST ==
    { <<"s", "e", "n", "t", "r", "y", ".", "i", "o">>,
      <<"e", "x", "a", "m", "p", "l", "e", ".", "c", "o", "m">>,
      <<"t", "e", "s", "t", ".", "c", "o", "m">>,
      <<"w", "i", "x", "p", "r", "e", "s", "s", ".", "c", "o", "m">>,
      <<"a", "m", "a", "z", "o", "n", "a", "w", "s", ".", "c", "o", "m">>,
      <<"c", "l", "o", "u", "d", "f", "l", "a", "r", "e", ".", "c", "o", "m">>,
      <<"g", "o", "o", "g", "l", "e", ".", "c", "o", "m">>,
      <<"f", "a", "c", "e", "b", "o", "o", "k", ".", "c", "o", "m">>,
      <<"i", "n", "s", "t", "a", "g", "r", "a", "m", ".", "c", "o", "m">>,
      <<"t", "w", "i", "t", "t", "e", "r", ".", "c", "o", "m">>,
      <<"l", "i", "n", "k", "e", "d", "i", "n", ".", "c", "o", "m">>,
      <<"2", "x", ".", "p", "n", "g">>,
      <<"3", "x", ".", "p", "n", "g">> }

_FAKE_TLDS ==
    { <<".", "p", "n", "g">>,
      <<".", "j", "p", "g">>,
      <<".", "g", "i", "f">>,
      <<".", "s", "v", "g">>,
      <<".", "j", "s">>,
      <<".", "c", "s", "s">>,
      <<".", "w", "o", "f", "f">>,
      <<".", "t", "t", "f">> }

_CONTACT_PATHS ==
    << "/contact", "/contact-us", "/nous-contacter",
       "/contactez-nous", "/about", "/a-propos" >>

\* the url argument: its scheme as characters, netloc and path as a whole
Url(scheme, netloc, path) == [scheme |-> scheme, netloc |-> netloc, path |-> path]

Urls ==
    { Url(<<>>, "", ""),
      Url(<<"f", "t", "p">>, "shop.fr", "/"),
      Url(<<"h", "t", "t", "p">>, "shop.fr", "/"),
      Url(<<"h", "t", "t", "p", "s">>, "shop.fr", "/contact") }

\* href attributes of the <a> tags a page may hold
HrefZoe == <<"M", "A", "I", "L", "T", "O", ":", "Z", "o", "e", "@", "S", "h", "o", "p", ".", "f", "r", "?", "s", "u", "b", "j", "e", "c", "t", "=", "h", "i">>
HrefNoreply == <<"m", "a", "i", "l", "t", "o", ":", " ", "n", "o", "r", "e", "p", "l", "y", "@", "s", "h", "o", "p", ".", "f", "r", " ">>
HrefLocalhost == <<"m", "a", "i", "l", "t", "o", ":", "a", "d", "m", "i", "n", "@", "l", "o", "c", "a", "l", "h", "o", "s", "t">>
HrefBob == <<"m", "a", "i", "l", "t", "o", ":", "b", "o", "b", "@", "s", "h", "o", "p", ".", "f", "r">>
HrefContactPage == <<"/", "c", "o", "n", "t", "a", "c", "t">>
HrefPool == {HrefZoe, HrefNoreply, HrefLocalhost, HrefBob, HrefContactPage}

\* matches of _EMAIL_RE a page's raw markup may hold
MatchBanner == <<"b", "a", "n", "n", "e", "r", "@", "2", "x", ".", "p", "n", "g">>
MatchInfo == <<"I", "n", "f", "o", "@", "S", "h", "o", "p", ".", "F", "R">>
MatchBounce == <<"b", "o", "u", "n", "c", "e", "@", "s", "h", "o", "p", ".", "f", "r">>
MatchIcon == <<"i", "c", "o", "n", "@", "c", "d", "n", ".", "s", "i", "t", "e", ".", "s", "v", "g">>
MatchSentry == <<"a", "p", "p", "@", "o", "1", ".", "i", "n", "g", "e", "s", "t", ".", "s", "e", "n", "t", "r", "y", ".", "i", "o">>
MatchPool == {MatchBanner, MatchInfo, MatchBounce, MatchIcon, MatchSentry}

\* Content-Type headers of a 200 response ("" when the header is missing)
ContentTypes == { <<"t", "e", "x", "t", "/", "h", "t", "m", "l", ";", " ", "c", "h", "a", "r", "s", "e", "t", "=", "u", "t", "f", "-", "8">>, <<"a", "p", "p", "l", "i", "c", "a", "t", "i", "o", "n", "/", "p", "d", "f">>, <<>> }

\* exceptions requests.get raises
GetExceptions == {"ConnectionError", "Timeout", "SSLError", "TooManyRedirects"}
\* the subclasses of requests.RequestException
RequestExceptions ==
    {"ConnectionError", "Timeout", "SSLError", "TooManyRedirects", "HTTPError",
     "JSONDecodeError"}

MailtoScheme == <<"m", "a", "i", "l", "t", "o", ":">>
TextHtml == <<"t", "e", "x", "t", "/", "h", "t", "m", "l">>
HttpPrefix == <<"h", "t", "t", "p">>

VARIABLES
    \* search_places: arguments
    excluded_keywords, max_results, min_reviews,
    \* search_places: locals
    excluded, results, seen_ids, page_token,
    \* search_places: control, the endpoint and the outcome (returned is the
    \* value handed to the caller once pc = "done", raised the exception that
    \* left the call once pc = "raised")
    pc, catalog, n_requests, response, returned, raised,
    \* search_places: the pageToken of the last payload sent ("None" when
    \* the payload has no pageToken key) and the time.sleep(0.3) calls made
    payload_token, n_sleeps,
    \* scrape_email_from_website: argument, position in pages (1-based index
    \* of the page the for loop is at), the page URLs requested so far, the
    \* outcome of the last requests.get, the found set, the value returned
    url, page_idx, fetched, outcome, found, email,
    \* scrape_email_from_website: control and an exception that left the call
    scrape_pc, scrape_error,
    \* enrich_with_details: the list as passed, the list (its records are
    \* updated in place), whether a progress_callback was passed, the 1-based
    \* position of the for loop, the outcome of the lookup made for each
    \* record processed, the progress_callback calls made, control, the value
    \* returned and an exception that left the call
    det_input, det_places, det_callback, det_i, det_log, det_calls, det_pc,
    det_returned, det_error,
    \* enrich_with_emails: the list, whether a progress_callback was passed,
    \* the position of the for loop, the scrape_email_from_website call made
    \* for each record processed, the number of assignments to each record's
    \* "email" key, the progress_callback calls made, control and the value
    \* returned
    em_places, em_callback, em_i, em_log, em_writes, em_calls, em_pc,
    em_returned

searchVars == <<excluded_keywords, max_results, min_reviews, excluded, results,
                seen_ids, page_token, pc, catalog, n_requests, response,
                returned, raised, payload_token, n_sleeps>>

scrapeVars == <<url, page_idx, fetched, outcome, found, email, scrape_pc,
                scrape_error>>

detailVars == <<det_input, det_places, det_callback, det_i, det_log, det_calls,
                det_pc, det_returned, det_error>>

emailVars == <<em_places, em_callback, em_i, em_log, em_writes, em_calls, em_pc,
               em_returned>>

vars == <<searchVars, scrapeVars, detailVars, emailVars>>

\* "if page_token:" / "if not page_token": None and "" are falsy
Truthy(tok) == tok # NoToken /\ tok # ""

\* excluded = [kw.lower().strip() for kw in (excluded_keywords or []) if kw.strip()]
NormaliseKeywords(kws) ==
    LET kept == SelectSeq(kws, LAMBDA kw : Strip(kw) # <<>>)
    IN  [k \in 1..Len(kept) |-> Strip(Lower(kept[k]))]

\* _is_excluded(name, excluded)
_is_excluded_case_sensitive(name, excl) ==
    \E k \in 1..Len(excl) : Contains(excl[k], name)
_is_excluded(name, excl) ==
    LET name_lower == Lower(name)
    IN  \E k \in 1..Len(excl) : Contains(excl[k], name_lower)

\* place.get("userRatingCount", 0)
RatingCount(place) == IF place.reviews = NoCount THEN 0 ELSE place.reviews

\* "if not place_id or place_id in seen_ids: continue"
IsSkippedNoDedup(place, seen) == place.id = NoId
IsSkipped(place, seen) == place.id = NoId \/ place.id \in seen

\* the two filters of the for loop: TRUE when the place is dropped
IsFiltered(place, excl, minrev) ==
    \/ _is_excluded(place.name, excl)
    \/ (minrev > 0 /\ RatingCount(place) < minrev)

\* the "for place in places" loop, from (res, seen): the new (results, seen_ids)
RECURSIVE ForPlacesSeenFirst(_, _, _, _, _)
ForPlacesSeenFirst(pl, res, seen, excl, minrev) ==
    IF pl = <<>> THEN [results |-> res, seen_ids |-> seen]
    ELSE LET place == Head(pl)
         IN  IF IsSkipped(place, seen)
             THEN ForPlacesSeenFirst(Tail(pl), res, seen, excl, minrev)
             ELSE IF IsFiltered(place, excl, minrev)
             THEN ForPlacesSeenFirst(Tail(pl), res, seen \cup {place.id},
                                     excl, minrev)
             ELSE ForPlacesSeenFirst(Tail(pl), Append(res, place),
                                     seen \cup {place.id}, excl, minrev)
RECURSIVE ForPlacesPrepend(_, _, _, _, _)
ForPlacesPrepend(pl, res, seen, excl, minrev) ==
    IF pl = <<>> THEN [results |-> res, seen_ids |-> seen]
    ELSE LET place == Head(pl)
         IN  IF IsSkipped(place, seen) \/ IsFiltered(place, excl, minrev)
             THEN ForPlacesPrepend(Tail(pl), res, seen, excl, minrev)
             ELSE ForPlacesPrepend(Tail(pl), <<place>> \o res,
                                   seen \cup {place.id}, excl, minrev)
RECURSIVE ForPlaces(_, _, _, _, _)
ForPlaces(pl, res, seen, excl, minrev) ==
    IF pl = <<>> THEN [results |-> res, seen_ids |-> seen]
    ELSE LET place == Head(pl)
         IN  IF IsSkipped(place, seen) \/ IsFiltered(place, excl, minrev)
             THEN ForPlaces(Tail(pl), res, seen, excl, minrev)
             ELSE ForPlaces(Tail(pl), Append(res, place),
                            seen \cup {place.id}, excl, minrev)

\* response.raise_for_status(): HTTPError for a 4xx or 5xx status
RaisesForStatusServerOnly(status) == 500 <= status /\ status < 600
RaisesForStatus(status) == 400 <= status /\ status < 600

\* the except clauses: HTTPError is tried before its base class RequestException
ErrorLabelBaseFirst(exc) == NetworkLabel
ErrorLabel(exc) ==
    IF exc = "HTTPError" THEN ApiLabel ELSE NetworkLabel

\* "if page_token: payload["pageToken"] = page_token": the pageToken the
\* payload carries, "None" when the key is not set
PayloadTokenNever(tok) == NoToken
PayloadToken(tok) == IF Truthy(tok) THEN tok ELSE NoToken

\* lines 350-354: "if not page_token or not places: break", otherwise
\* time.sleep(0.3) before the loop test; the position reached after a page
AfterPageNoSleep(tok, page) ==
    IF ~Truthy(tok) \/ page = <<>> THEN "return" ELSE "while"
AfterPage(tok, page) ==
    IF ~Truthy(tok) \/ page = <<>> THEN "return" ELSE "sleep"

\* the last response: places is data.get("places", []) and token is
\* data.get("nextPageToken") of a JSON body
NoResponse == [kind |-> "none", status |-> 0, places |-> <<>>, token |-> NoToken]
NoError == [type |-> "none", label |-> "", status |-> 0]

\* ------------------------------------------------------------------------
\* scrape_email_from_website: helpers
\* ------------------------------------------------------------------------
\* _is_valid_email(email)
_is_valid_email_no_fake_tld(address) ==
    LET e == Strip(Lower(address))
    IN  /\ Contains(<<"@">>, e)
        /\ LET domain == RSplitLast(e, "@")
           IN  /\ ~\E bl \in _DOMAIN_BLACKLIST : Contains(bl, domain)
               /\ Contains(<<".">>, domain)
_is_valid_email(address) ==
    LET e == Strip(Lower(address))
    IN  /\ Contains(<<"@">>, e)
        /\ LET domain == RSplitLast(e, "@")
           IN  /\ ~\E ext \in _FAKE_TLDS : EndsWith(domain, ext)
               /\ ~\E bl \in _DOMAIN_BLACKLIST : Contains(bl, domain)
               /\ Contains(<<".">>, domain)

\* _email_priority(email)
_email_priority(address) ==
    LET local == Lower(SplitFirst(address, "@"))
    IN  IF \E g \in _GENERIC_PREFIXES : Contains(g, local) THEN 1 ELSE 0

\* pages = [url] + [urljoin(base, p) for p in _CONTACT_PATHS]
Pages(u) ==
    <<u>> \o [k \in 1..Len(_CONTACT_PATHS) |->
                 Url(u.scheme, u.netloc, _CONTACT_PATHS[k])]

\* "if not url or not url.startswith("http")": the url is refused
UrlRefused(u) == u.scheme = <<>> \/ ~StartsWith(u.scheme, HttpPrefix)

\* href.lower().startswith("mailto:")
IsMailto(href) == StartsWith(Lower(href), MailtoScheme)

\* href[7:].split("?")[0].strip().lower()
AnchorEmail(href) == Lower(Strip(SplitFirst(DropFirst(href, 7), "?")))

\* "text/html" in resp.headers.get("Content-Type", "")
IsHtml(ctype) == Contains(TextHtml, ctype)

\* what one <a href> adds to found: its address when the href is a mailto
\* link and the address is valid
FromAnchor ==
    [h \in HrefPool |->
        IF IsMailto(h) /\ _is_valid_email(AnchorEmail(h))
        THEN {AnchorEmail(h)} ELSE {}]

\* what one match of _EMAIL_RE adds to found: its lowercased text when valid
FromMatch ==
    [m \in MatchPool |-> IF _is_valid_email(Lower(m)) THEN {Lower(m)} ELSE {}]

\* the found set of one page: valid mailto anchors, then valid regex matches
Found(hrefs, matches) ==
    UNION ({FromAnchor[h] : h \in hrefs} \cup {FromMatch[m] : m \in matches})

\* _email_priority over the addresses a page can yield
PriorityOf ==
    [e \in Found(HrefPool, MatchPool) |-> _email_priority(e)]

\* sorted(found, key=_email_priority)[0]: the sort is stable over the
\* iteration order of a set of str, which the hash seed and the insertions
\* decide, so the first element is any element of the lowest priority present
SortedFirstReversed(fnd) ==
    {e \in fnd : \A f \in fnd : PriorityOf[e] >= PriorityOf[f]}
SortedFirst(fnd) ==
    {e \in fnd : \A f \in fnd : PriorityOf[e] <= PriorityOf[f]}

\* "if found:": the page ends the probing
StopsNever(fnd) == FALSE
StopsAt(fnd) == fnd # {}

\* "except requests.RequestException: continue"
CaughtConnectionErrorOnly(exc) == exc = "ConnectionError"
Caught(exc) == exc \in RequestExceptions

NoOutcome == [kind |-> "none", status |-> 0, hrefs |-> {}, matches |-> {}]

\* the subsets of S with at most n elements
SubsetsUpTo(S, n) == {x \in SUBSET S : Cardinality(x) <= n}

\* ------------------------------------------------------------------------
\* get_place_details / enrich_with_details: helpers
\* ------------------------------------------------------------------------
\* the value of a key a dict does not hold
Absent == "absent"

\* a place dict over the keys the model follows: "id" and
\* "nationalPhoneNumber" (two of DETAIL_FIELDS) and "email" (attached by
\* enrich_with_emails, never part of a Place Details response)
Dict(i, phone, mail) == [id |-> i, nationalPhoneNumber |-> phone, email |-> mail]
EmptyDict == Dict(Absent, Absent, Absent)

\* the records enrich_with_details may be handed
DetailPlacePool ==
    { Dict(Absent, Absent, "e0"),
      Dict("a", Absent, Absent),
      Dict("a", "p0", "e0"),
      Dict("b", "p0", Absent) }

\* the JSON objects a Place Details response may hold
DetailBodies ==
    { EmptyDict,
      Dict(Absent, "p1", Absent),
      Dict("z", "p1", Absent),
      Dict("a", Absent, Absent) }

\* one lookup as the endpoint answers it: the exception raised inside the
\* try block of get_place_details ("none" when response.json() returns) and
\* the JSON object returned
Answer(kind, exc, body) == [kind |-> kind, exc |-> exc, body |-> body]
NoLookup == Answer("none", "none", EmptyDict)

\* place_id = place.get("id"); "if place_id:"
HasId(place) == place.id # Absent /\ place.id # ""

\* get_place_details: response.json() when nothing is raised, {} when a
\* RequestException is caught; any other exception leaves the function
get_place_details_reraise(exc, body) ==
    IF exc = "none" THEN [details |-> body, error |-> "none"]
    ELSE [details |-> EmptyDict, error |-> exc]
get_place_details(exc, body) ==
    IF exc = "none" THEN [details |-> body, error |-> "none"]
    ELSE IF Caught(exc) THEN [details |-> EmptyDict, error |-> "none"]
    ELSE [details |-> EmptyDict, error |-> exc]

\* dict.update on one key: the value of details when details holds the key
Merged(new, old) == IF new # Absent THEN new ELSE old

\* place.update(details)
UpdateKeepExisting(place, details) ==
    Dict(Merged(place.id, details.id),
         Merged(place.nationalPhoneNumber, details.nationalPhoneNumber),
         Merged(place.email, details.email))
Update(place, details) ==
    Dict(Merged(details.id, place.id),
         Merged(details.nationalPhoneNumber, place.nationalPhoneNumber),
         Merged(details.email, place.email))

\* progress_callback(i + 1, total)
ProgressArgs(i, total) == <<i + 1, total>>

\* enrich_with_details not called
DetailsIdle ==
    /\ det_input = <<>>
    /\ det_places = <<>>
    /\ det_callback = FALSE
    /\ det_i = 0
    /\ det_log = <<>>
    /\ det_calls = <<>>
    /\ det_pc = "idle"
    /\ det_returned = <<>>
    /\ det_error = "none"

\* ------------------------------------------------------------------------
\* enrich_with_emails: helpers
\* ------------------------------------------------------------------------
\* the "email" key of a record enrich_with_emails has not written yet
Unset == <<"unset">>
OldEmail == <<"o", "l", "d", "@", "s", "h", "o", "p", ".", "f", "r">>
EmptyUrl == Url(<<>>, "", "")

\* a place dict over "websiteUri" and "email"; place.get("websiteUri", "")
\* reads a missing key as the empty url
EmailPlace(site, mail) == [websiteUri |-> site, email |-> mail]
EmailPlacePool ==
    {EmailPlace(u, Unset) : u \in Urls} \cup {EmailPlace(EmptyUrl, OldEmail)}

\* what one call scrape_email_from_website(u) does: the pages it requests
\* and the value it returns. A refused url requests nothing and returns "";
\* otherwise the pages are requested in order up to the first one with a
\* non-empty found set, one of whose addresses is returned, or all of them
\* are requested and "" is returned
ScrapeRunsUnguarded(u) ==
    {[fetched |-> TakeFirst(Pages(u), n), email |-> e] :
        n \in 1..Len(Pages(u)), e \in Found(HrefPool, MatchPool)}
    \cup {[fetched |-> Pages(u), email |-> <<>>]}
ScrapeRuns(u) ==
    IF UrlRefused(u) THEN {[fetched |-> <<>>, email |-> <<>>]}
    ELSE {[fetched |-> TakeFirst(Pages(u), n), email |-> e] :
             n \in 1..Len(Pages(u)), e \in Found(HrefPool, MatchPool)}
         \cup {[fetched |-> Pages(u), email |-> <<>>]}

\* enrich_with_emails not called
EmailsIdle ==
    /\ em_places = <<>>
    /\ em_callback = FALSE
    /\ em_i = 0
    /\ em_log = <<>>
    /\ em_writes = <<>>
    /\ em_calls = <<>>
    /\ em_pc = "idle"
    /\ em_returned = <<>>

\* ------------------------------------------------------------------------
\* GooglePlacesScraper.search_places: the steps of one call
\* ------------------------------------------------------------------------
SearchInputs ==
    /\ excluded_keywords \in KeywordLists
    /\ min_reviews \in 0..2
    /\ excluded = <<>>
    /\ results = <<>>
    /\ seen_ids = {}
    /\ page_token = NoToken
    /\ pc = "call"
    /\ n_requests = 0
    /\ response = NoResponse
    /\ returned = <<>>
    /\ payload_token = NoToken
    /\ n_sleeps = 0
    /\ raised = NoError

\* scrape_email_from_website not called
ScrapeIdle ==
    /\ url = Url(<<>>, "", "")
    /\ page_idx = 0
    /\ fetched = <<>>
    /\ outcome = NoOutcome
    /\ found = {}
    /\ email = <<>>
    /\ scrape_pc = "idle"
    /\ scrape_error = "none"

\* a call with a small cap against an endpoint serving short pages
Init ==
    /\ SearchInputs
    /\ ScrapeIdle
    /\ DetailsIdle
    /\ EmailsIdle
    /\ max_results \in 0..MaxCap
    /\ catalog = "short"

\* a call with a cap around PageSize * MaxPages against an endpoint serving
\* full pages
InitFull ==
    /\ SearchInputs
    /\ ScrapeIdle
    /\ DetailsIdle
    /\ EmailsIdle
    /\ max_results \in {PageSize * MaxPages, PageSize * MaxPages + 1}
    /\ catalog = "full"

\* lines 289-298: normalise the keywords, empty accumulators, no token
SearchPlaces ==
    /\ pc = "call"
    /\ excluded' = NormaliseKeywords(excluded_keywords)
    /\ results' = <<>>
    /\ seen_ids' = {}
    /\ page_token' = NoToken
    /\ pc' = "while"
    /\ UNCHANGED <<payload_token, n_sleeps,
                   excluded_keywords, max_results, min_reviews, catalog,
                   n_requests, response, returned, raised>>
    /\ UNCHANGED <<scrapeVars, detailVars, emailVars>>

\* "while len(results) < max_results": the condition holds
WhileEnter ==
    /\ pc = "while"
    /\ Len(results) < max_results
    /\ pc' = "post"
    /\ UNCHANGED <<payload_token, n_sleeps,
                   excluded_keywords, max_results, min_reviews, excluded, results,
                   seen_ids, page_token, catalog, n_requests, response,
                   returned, raised>>
    /\ UNCHANGED <<scrapeVars, detailVars, emailVars>>

\* "while len(results) < max_results": the condition fails, the loop ends
WhileExit ==
    /\ pc = "while"
    /\ ~(Len(results) < max_results)
    /\ pc' = "return"
    /\ UNCHANGED <<payload_token, n_sleeps,
                   excluded_keywords, max_results, min_reviews, excluded, results,
                   seen_ids, page_token, catalog, n_requests, response,
                   returned, raised>>
    /\ UNCHANGED <<scrapeVars, detailVars, emailVars>>

\* requests.post(url, json=payload, ...): one page request is issued; the
\* previous response object is dropped
Post ==
    /\ pc = "post"
    /\ n_requests < MaxRequests
    /\ n_requests' = n_requests + 1
    /\ response' = NoResponse
    /\ payload_token' = PayloadToken(page_token)
    /\ pc' = "wait"
    /\ UNCHANGED <<n_sleeps,
                   excluded_keywords, max_results, min_reviews, excluded, results,
                   seen_ids, page_token, catalog, returned, raised>>
    /\ UNCHANGED <<scrapeVars, detailVars, emailVars>>

\* the response has a status raise_for_status() accepts and a JSON body:
\* places = data.get("places", []) (kept in response.places) and page_token
\* are read, the page is filtered and accumulated, then the break test is made
RecvPage ==
    /\ pc = "wait"
    /\ \E status \in Statuses, page \in Catalog(catalog), tok \in Tokens \cup {NoToken} :
        /\ ~RaisesForStatus(status)
        /\ response' = [kind |-> "json", status |-> status, places |-> page,
                        token |-> tok]
        /\ page_token' = tok
        /\ LET acc == ForPlaces(page, results, seen_ids, excluded, min_reviews)
           IN  /\ results' = acc.results
               /\ seen_ids' = acc.seen_ids
        /\ pc' = AfterPage(tok, page)
    /\ UNCHANGED <<payload_token, n_sleeps,
                   excluded_keywords, max_results, min_reviews, excluded, catalog,
                   n_requests, returned, raised>>
    /\ UNCHANGED <<scrapeVars, detailVars, emailVars>>

\* the response has a 4xx/5xx status: raise_for_status() raises HTTPError,
\* which is re-raised as RuntimeError with the API label and the status
RecvHTTPError ==
    /\ pc = "wait"
    /\ \E status \in Statuses :
        /\ RaisesForStatus(status)
        /\ response' = [kind |-> "error_status", status |-> status,
                        places |-> <<>>, token |-> NoToken]
        /\ raised' = [type |-> "RuntimeError", label |-> ErrorLabel("HTTPError"),
                      status |-> status]
    /\ pc' = "raised"
    /\ UNCHANGED <<payload_token, n_sleeps,
                   excluded_keywords, max_results, min_reviews, excluded, results,
                   seen_ids, page_token, catalog, n_requests, returned>>
    /\ UNCHANGED <<scrapeVars, detailVars, emailVars>>

\* requests.post raises ConnectionError, Timeout or SSLError (RequestException)
RecvTransportError ==
    /\ pc = "wait"
    /\ response' = [kind |-> "transport", status |-> 0, places |-> <<>>,
                    token |-> NoToken]
    /\ raised' = [type |-> "RuntimeError", label |-> ErrorLabel("ConnectionError"),
                  status |-> 0]
    /\ pc' = "raised"
    /\ UNCHANGED <<payload_token, n_sleeps,
                   excluded_keywords, max_results, min_reviews, excluded, results,
                   seen_ids, page_token, catalog, n_requests, returned>>
    /\ UNCHANGED <<scrapeVars, detailVars, emailVars>>

\* the response has a status raise_for_status() accepts but its body is not
\* JSON: response.json() raises requests.JSONDecodeError, a RequestException
\* (requests >= 2.27, which the Places API (New) endpoints of this code
\* postdate), re-raised as RuntimeError with the network label
RecvBadBody ==
    /\ pc = "wait"
    /\ \E status \in Statuses :
        /\ ~RaisesForStatus(status)
        /\ response' = [kind |-> "bad_body", status |-> status, places |-> <<>>,
                        token |-> NoToken]
        /\ raised' = [type |-> "RuntimeError",
                      label |-> ErrorLabel("JSONDecodeError"), status |-> 0]
    /\ pc' = "raised"
    /\ UNCHANGED <<payload_token, n_sleeps,
                   excluded_keywords, max_results, min_reviews, excluded, results,
                   seen_ids, page_token, catalog, n_requests, returned>>
    /\ UNCHANGED <<scrapeVars, detailVars, emailVars>>

\* time.sleep(0.3), then back to the loop test
Sleep ==
    /\ pc = "sleep"
    /\ n_sleeps' = n_sleeps + 1
    /\ pc' = "while"
    /\ UNCHANGED <<payload_token,
                   excluded_keywords, max_results, min_reviews, excluded, results,
                   seen_ids, page_token, catalog, n_requests, response,
                   returned, raised>>
    /\ UNCHANGED <<scrapeVars, detailVars, emailVars>>

\* return results[:max_results]
Return ==
    /\ pc = "return"
    /\ returned' = TakeFirst(results, max_results)
    /\ pc' = "done"
    /\ UNCHANGED <<payload_token, n_sleeps,
                   excluded_keywords, max_results, min_reviews, excluded, results,
                   seen_ids, page_token, catalog, n_requests, response,
                   raised>>
    /\ UNCHANGED <<scrapeVars, detailVars, emailVars>>

Next ==
    \/ SearchPlaces
    \/ WhileEnter
    \/ WhileExit
    \/ Post
    \/ RecvPage
    \/ RecvHTTPError
    \/ RecvTransportError
    \/ RecvBadBody
    \/ Sleep
    \/ Return

Spec == Init /\ [][Next]_vars

FullSpec == InitFull /\ [][Next]_vars

\* ------------------------------------------------------------------------
\* scrape_email_from_website: the steps of one call
\* ------------------------------------------------------------------------
\* search_places not called
SearchIdle ==
    /\ excluded_keywords = <<>>
    /\ max_results = 0
    /\ min_reviews = 0
    /\ excluded = <<>>
    /\ results = <<>>
    /\ seen_ids = {}
    /\ page_token = NoToken
    /\ pc = "idle"
    /\ catalog = "short"
    /\ n_requests = 0
    /\ response = NoResponse
    /\ returned = <<>>
    /\ payload_token = NoToken
    /\ n_sleeps = 0
    /\ raised = NoError

\* a call of scrape_email_from_website(url)
ScrapeInit ==
    /\ SearchIdle
    /\ DetailsIdle
    /\ EmailsIdle
    /\ url \in Urls
    /\ page_idx = 0
    /\ fetched = <<>>
    /\ outcome = NoOutcome
    /\ found = {}
    /\ email = <<>>
    /\ scrape_pc = "call"
    /\ scrape_error = "none"

\* lines 153-158: a refused url returns "", otherwise the page list is built
\* and the for loop starts at its first page
ScrapeEmailFromWebsite ==
    /\ scrape_pc = "call"
    /\ IF UrlRefused(url)
       THEN /\ email' = <<>>
            /\ scrape_pc' = "done"
            /\ UNCHANGED page_idx
       ELSE /\ page_idx' = 1
            /\ scrape_pc' = "for"
            /\ UNCHANGED email
    /\ UNCHANGED <<url, fetched, outcome, found, scrape_error>>
    /\ UNCHANGED <<searchVars, detailVars, emailVars>>

\* requests.get raises: a RequestException is caught and the loop continues
\* with the next page, any other exception leaves the function
GetRaises ==
    /\ scrape_pc = "for"
    /\ page_idx <= Len(Pages(url))
    /\ fetched' = Append(fetched, Pages(url)[page_idx])
    /\ outcome' = [kind |-> "exception", status |-> 0, hrefs |-> {}, matches |-> {}]
    /\ \E exc \in GetExceptions :
         IF Caught(exc)
         THEN /\ page_idx' = page_idx + 1
              /\ UNCHANGED <<scrape_pc, scrape_error>>
         ELSE /\ scrape_pc' = "raised"
              /\ scrape_error' = exc
              /\ UNCHANGED page_idx
    /\ UNCHANGED <<url, found, email>>
    /\ UNCHANGED <<searchVars, detailVars, emailVars>>

\* "if resp.status_code != 200: continue"
GetNon200 ==
    /\ scrape_pc = "for"
    /\ page_idx <= Len(Pages(url))
    /\ fetched' = Append(fetched, Pages(url)[page_idx])
    /\ \E status \in {204, 404, 503} :
         /\ status # 200
         /\ outcome' = [kind |-> "status", status |-> status, hrefs |-> {},
                        matches |-> {}]
    /\ page_idx' = page_idx + 1
    /\ UNCHANGED <<url, found, email, scrape_pc, scrape_error>>
    /\ UNCHANGED <<searchVars, detailVars, emailVars>>

\* "if "text/html" not in resp.headers.get("Content-Type", ""): continue"
GetNonHtml ==
    /\ scrape_pc = "for"
    /\ page_idx <= Len(Pages(url))
    /\ fetched' = Append(fetched, Pages(url)[page_idx])
    /\ \E ctype \in ContentTypes :
         /\ ~IsHtml(ctype)
         /\ outcome' = [kind |-> "content_type", status |-> 200, hrefs |-> {},
                        matches |-> {}]
    /\ page_idx' = page_idx + 1
    /\ UNCHANGED <<url, found, email, scrape_pc, scrape_error>>
    /\ UNCHANGED <<searchVars, detailVars, emailVars>>

\* a 200 text/html page: both extractions fill found; a non-empty found
\* returns sorted(found, key=_email_priority)[0], an empty one goes on to the
\* next page
GetHtml ==
    /\ scrape_pc = "for"
    /\ page_idx <= Len(Pages(url))
    /\ fetched' = Append(fetched, Pages(url)[page_idx])
    /\ \E ctype \in ContentTypes, hrefs \in SubsetsUpTo(HrefPool, MaxHrefs),
          matches \in SubsetsUpTo(MatchPool, MaxMatches) :
         /\ IsHtml(ctype)
         /\ outcome' = [kind |-> "html", status |-> 200, hrefs |-> hrefs,
                        matches |-> matches]
         /\ found' = Found(hrefs, matches)
         /\ IF StopsAt(found')
            THEN /\ email' \in SortedFirst(found')
                 /\ scrape_pc' = "done"
                 /\ UNCHANGED page_idx
            ELSE /\ page_idx' = page_idx + 1
                 /\ UNCHANGED <<email, scrape_pc>>
    /\ UNCHANGED <<url, scrape_error>>
    /\ UNCHANGED <<searchVars, detailVars, emailVars>>

\* the for loop is exhausted: return ""
ForEnd ==
    /\ scrape_pc = "for"
    /\ page_idx > Len(Pages(url))
    /\ email' = <<>>
    /\ scrape_pc' = "done"
    /\ UNCHANGED <<url, page_idx, fetched, outcome, found, scrape_error>>
    /\ UNCHANGED <<searchVars, detailVars, emailVars>>

ScrapeNext ==
    \/ ScrapeEmailFromWebsite
    \/ GetRaises
    \/ GetNon200
    \/ GetNonHtml
    \/ GetHtml
    \/ ForEnd

ScrapeSpec == ScrapeInit /\ [][ScrapeNext]_vars

\* ------------------------------------------------------------------------
\* enrich_with_details: the steps of one call
\* ------------------------------------------------------------------------
\* a call of enrich_with_details(places, language, progress_callback)
DetailsInit ==
    /\ SearchIdle
    /\ ScrapeIdle
    /\ EmailsIdle
    /\ det_input \in SeqUpTo(DetailPlacePool, MaxPlaces)
    /\ det_places = det_input
    /\ det_callback \in BOOLEAN
    /\ det_i = 0
    /\ det_log = <<>>
    /\ det_calls = <<>>
    /\ det_pc = "call"
    /\ det_returned = <<>>
    /\ det_error = "none"

\* total = len(places); the for loop starts at i = 0
EnrichWithDetails ==
    /\ det_pc = "call"
    /\ det_i' = 0
    /\ det_pc' = "for"
    /\ UNCHANGED <<det_input, det_places, det_callback, det_log, det_calls,
                   det_returned, det_error>>
    /\ UNCHANGED <<searchVars, scrapeVars, emailVars>>

\* the end of one iteration: "if progress_callback: progress_callback(i + 1,
\* total)", time.sleep(0.2), next i
IterationEnd ==
    /\ det_calls' = IF det_callback
                    THEN Append(det_calls, ProgressArgs(det_i, Len(det_places)))
                    ELSE det_calls
    /\ det_i' = det_i + 1

\* one iteration for a record whose "id" is missing or empty: no lookup
ForPlaceNoId ==
    /\ det_pc = "for"
    /\ det_i < Len(det_places)
    /\ ~HasId(det_places[det_i + 1])
    /\ det_log' = Append(det_log, NoLookup)
    /\ IterationEnd
    /\ UNCHANGED <<det_input, det_places, det_callback, det_pc, det_returned,
                   det_error>>
    /\ UNCHANGED <<searchVars, scrapeVars, emailVars>>

\* one iteration for a record with an id, the lookup being answered by a:
\* details = self.get_place_details(place_id, language); place.update(details)
ForPlaceLookup(a) ==
    /\ det_pc = "for"
    /\ det_i < Len(det_places)
    /\ HasId(det_places[det_i + 1])
    /\ det_log' = Append(det_log, a)
    /\ LET got == get_place_details(a.exc, a.body)
       IN  IF got.error = "none"
           THEN /\ det_places' = [det_places EXCEPT
                                     ![det_i + 1] = Update(@, got.details)]
                /\ IterationEnd
                /\ UNCHANGED <<det_pc, det_error>>
           ELSE /\ det_pc' = "raised"
                /\ det_error' = got.error
                /\ UNCHANGED <<det_places, det_calls, det_i>>
    /\ UNCHANGED <<det_input, det_callback, det_returned>>
    /\ UNCHANGED <<searchVars, scrapeVars, emailVars>>

\* the lookup is answered with a status raise_for_status() accepts and a
\* JSON object
LookupJson ==
    \E status \in Statuses, body \in DetailBodies :
        /\ ~RaisesForStatus(status)
        /\ ForPlaceLookup(Answer("json", "none", body))

\* the lookup is answered with a 4xx/5xx status: raise_for_status() raises
\* HTTPError
LookupHTTPError ==
    \E status \in Statuses :
        /\ RaisesForStatus(status)
        /\ ForPlaceLookup(Answer("error_status", "HTTPError", EmptyDict))

\* requests.get raises
LookupTransportError ==
    \E exc \in GetExceptions :
        ForPlaceLookup(Answer("transport", exc, EmptyDict))

\* the body is not JSON: response.json() raises requests.JSONDecodeError
LookupBadBody ==
    \E status \in Statuses :
        /\ ~RaisesForStatus(status)
        /\ ForPlaceLookup(Answer("bad_body", "JSONDecodeError", EmptyDict))

\* the for loop is exhausted: return places
DetailsReturn ==
    /\ det_pc = "for"
    /\ det_i = Len(det_places)
    /\ det_returned' = det_places
    /\ det_pc' = "done"
    /\ UNCHANGED <<det_input, det_places, det_callback, det_i, det_log,
                   det_calls, det_error>>
    /\ UNCHANGED <<searchVars, scrapeVars, emailVars>>

DetailsNext ==
    \/ EnrichWithDetails
    \/ ForPlaceNoId
    \/ LookupJson
    \/ LookupHTTPError
    \/ LookupTransportError
    \/ LookupBadBody
    \/ DetailsReturn

DetailsSpec == DetailsInit /\ [][DetailsNext]_vars

\* ------------------------------------------------------------------------
\* enrich_with_emails: the steps of one call
\* ------------------------------------------------------------------------
\* a call of enrich_with_emails(places, progress_callback)
EmailsInit ==
    /\ SearchIdle
    /\ ScrapeIdle
    /\ DetailsIdle
    /\ em_places \in SeqUpTo(EmailPlacePool, MaxPlaces)
    /\ em_callback \in BOOLEAN
    /\ em_i = 0
    /\ em_log = <<>>
    /\ em_writes = [k \in 1..Len(em_places) |-> 0]
    /\ em_calls = <<>>
    /\ em_pc = "call"
    /\ em_returned = <<>>

\* total = len(places); the for loop starts at i = 0
EnrichWithEmails ==
    /\ em_pc = "call"
    /\ em_i' = 0
    /\ em_pc' = "for"
    /\ UNCHANGED <<em_places, em_callback, em_log, em_writes, em_calls,
                   em_returned>>
    /\ UNCHANGED <<searchVars, scrapeVars, detailVars>>

\* one iteration: website = place.get("websiteUri", ""); place["email"] =
\* scrape_email_from_website(website); the progress callback; time.sleep(0.2)
ForPlaceEmail ==
    /\ em_pc = "for"
    /\ em_i < Len(em_places)
    /\ \E run \in ScrapeRuns(em_places[em_i + 1].websiteUri) :
        /\ em_log' = Append(em_log, run)
        /\ em_places' = [em_places EXCEPT ![em_i + 1].email = run.email]
    /\ em_writes' = [em_writes EXCEPT ![em_i + 1] = @ + 1]
    /\ em_calls' = IF em_callback
                   THEN Append(em_calls, ProgressArgs(em_i, Len(em_places)))
                   ELSE em_calls
    /\ em_i' = em_i + 1
    /\ UNCHANGED <<em_callback, em_pc, em_returned>>
    /\ UNCHANGED <<searchVars, scrapeVars, detailVars>>

\* the for loop is exhausted: return places
EmailsReturn ==
    /\ em_pc = "for"
    /\ em_i = Len(em_places)
    /\ em_returned' = em_places
    /\ em_pc' = "done"
    /\ UNCHANGED <<em_places, em_callback, em_i, em_log, em_writes, em_calls>>
    /\ UNCHANGED <<searchVars, scrapeVars, detailVars>>

EmailsNext ==
    \/ EnrichWithEmails
    \/ ForPlaceEmail
    \/ EmailsReturn

EmailsSpec == EmailsInit /\ [][EmailsNext]_vars

\* ------------------------------------------------------------------------
\* Properties of search_places
\* ------------------------------------------------------------------------
ReturnedIds == {returned[k].id : k \in 1..Len(returned)}

\* C1: the list returned by search_places holds no two records with the
\* same id, whatever the pages were and however their ids overlapped.
C1_NoDuplicateIds ==
    pc = "done" =>
        \A i, j \in 1..Len(returned) : i # j => returned[i].id # returned[j].id

\* C1 witness: the call returned two records after at least two pages, the
\* last of which repeated an id within the page and repeated a returned id.
C1_Witness ==
    /\ pc = "done"
    /\ Len(returned) = 2
    /\ n_requests >= 2
    /\ Len(response.places) = 2
    /\ response.places[1].id = response.places[2].id
    /\ response.places[1].id \in ReturnedIds

\* C2: search_places returns at most cap records and at most
\* PageSize * MaxPages = 60 records, even when cap is above 60 and the
\* endpoint keeps returning continuation tokens.
C2_CapAndPageBound ==
    pc = "done" =>
        /\ Len(returned) <= max_results
        /\ Len(returned) <= PageSize * MaxPages

\* the keywords as the Result Filter states them: lowercased, trimmed,
\* non-empty
FilterKeywords ==
    {Strip(Lower(excluded_keywords[k])) : k \in 1..Len(excluded_keywords)} \ {<<>>}

PassesResultFilter(place) ==
    /\ \A kw \in FilterKeywords : ~Contains(kw, Lower(place.name))
    /\ min_reviews > 0 =>
           (IF place.reviews = NoCount THEN 0 ELSE place.reviews) >= min_reviews

\* C3: every returned record passes the Result Filter: its lowercased name
\* contains no lowercased, trimmed, non-empty excluded keyword, and when
\* min_reviews > 0 its review count (0 when absent) is >= min_reviews.
C3_ReturnedPassFilter ==
    pc = "done" =>
        \A k \in 1..Len(returned) : PassesResultFilter(returned[k])

\* C3 witness: a call with keywords and a review threshold returned a record
\* while the last page also held a record with an id that the name filter
\* kept out and one without a review count that the review filter kept out.
C3_Witness ==
    /\ pc = "done"
    /\ excluded # <<>>
    /\ min_reviews > 0
    /\ Len(returned) >= 1
    /\ \E k \in 1..Len(response.places) :
           /\ response.places[k].id # NoId
           /\ \E kw \in FilterKeywords :
                  Contains(kw, Lower(response.places[k].name))
    /\ \E k \in 1..Len(response.places) :
           /\ response.places[k].id \notin ReturnedIds \cup {NoId}
           /\ response.places[k].reviews = NoCount

\* the failures of a page request: a transport failure, and a status ...
TransportFailed == response.kind = "transport"
\* ... outside 2xx (the claims' reading)
Non2xxAnswered ==
    response.kind \in {"json", "bad_body", "error_status"}
        /\ ~(200 <= response.status /\ response.status < 300)
\* ... in 4xx or 5xx (the statuses raise_for_status() raises for)
ErrorStatusAnswered ==
    response.kind \in {"json", "bad_body", "error_status"}
        /\ response.status \in 400..599

\* the call ended with one error and handed nothing to the caller, and no
\* step of the call is left to run
AbortedWithOneError ==
    /\ pc = "raised"
    /\ raised # NoError
    /\ returned = <<>>
    /\ ~ENABLED Next

\* C4 as stated: a page request that fails (non-2xx status or transport
\* failure) makes search_places raise one error, return nothing and issue no
\* further request.
C4_Non2xxAborts ==
    (TransportFailed \/ Non2xxAnswered) => AbortedWithOneError

\* C4 amended: a page request that fails with a 4xx/5xx status or a transport
\* failure, on the first page or a later one, makes search_places raise one
\* error, return nothing (accumulated records included) and issue no further
\* request.
C4_ErrorStatusAborts ==
    (TransportFailed \/ ErrorStatusAnswered) => AbortedWithOneError

\* C4 witness: the second or a later page request failed after records had
\* been accumulated.
C4_Witness ==
    /\ TransportFailed \/ ErrorStatusAnswered
    /\ n_requests >= 2
    /\ results # <<>>
    /\ pc = "raised"

\* C5 as stated: a non-2xx response always yields the API label with the
\* status, a transport failure always the network label, and neither cause is
\* reported under the other's label.
C5_Non2xxLabelled ==
    /\ Non2xxAnswered =>
           raised.label = ApiLabel /\ raised.status = response.status
    /\ TransportFailed => raised.label = NetworkLabel
    /\ raised.label = ApiLabel => ~TransportFailed
    /\ raised.label = NetworkLabel => ~Non2xxAnswered

\* C5 amended: a 4xx/5xx response always yields the API label with the
\* status, a transport failure always the network label, and neither cause is
\* reported under the other's label.
C5_ErrorStatusLabelled ==
    /\ ErrorStatusAnswered =>
           raised.label = ApiLabel /\ raised.status = response.status
    /\ TransportFailed => raised.label = NetworkLabel
    /\ raised.label = ApiLabel => ~TransportFailed
    /\ raised.label = NetworkLabel => ~ErrorStatusAnswered

\* C5 witness: a 429 was answered and the error carries the API label.
C5_Witness ==
    /\ pc = "raised"
    /\ response.status = 429
    /\ raised.label = ApiLabel

\* ------------------------------------------------------------------------
\* Properties of scrape_email_from_website
\* ------------------------------------------------------------------------
\* the candidate pages in the order of the claim: the root URL, then the
\* contact paths in list order, resolved against the site's origin
CandidatePage(k) ==
    IF k = 1 THEN url ELSE Url(url.scheme, url.netloc, _CONTACT_PATHS[k - 1])
CandidateCount == 1 + Len(_CONTACT_PATHS)

\* the last requests.get did not give a usable page
PageSkipped == outcome.kind \in {"exception", "status", "content_type"}

C7_FailuresOnlySkip ==
    /\ scrape_pc # "raised"
    /\ scrape_error = "none"
    /\ (PageSkipped /\ Len(fetched) < CandidateCount) =>
           /\ scrape_pc = "for"
           /\ page_idx = Len(fetched) + 1
           /\ ENABLED ScrapeNext
    /\ (scrape_pc = "done" /\ found = {}) => email = <<>>

\* C7 witness: every candidate page was requested, the last request timed out
\* or failed, and the function returned the empty string.
C7_Witness ==
    /\ scrape_pc = "done"
    /\ Len(fetched) = CandidateCount
    /\ outcome.kind = "exception"
    /\ email = <<>>

\* the local part holds a generic system-prefix token (priority 1)
HasGenericToken(address) ==
    \E g \in _GENERIC_PREFIXES : Contains(g, SplitFirst(address, "@"))

\* C8: when the page where discovery stops has a candidate without a generic
\* token (priority 0), the returned address is such a candidate; a priority-1
\* address is returned only when the page has no priority-0 candidate.
C8_BusinessAddressPreferred ==
    (scrape_pc = "done" /\ found # {}) =>
        ((\E f \in found : ~HasGenericToken(f)) => ~HasGenericToken(email))

\* C8 witness: the stopping page held a priority-0 and a priority-1 candidate.
C8_Witness ==
    /\ scrape_pc = "done"
    /\ \E f \in found : HasGenericToken(f)
    /\ \E f \in found : ~HasGenericToken(f)

\* the order of Python str comparison on lowercased addresses (code points)
CodePoints == <<"-", ".", "0", "1", "2", "3", "4", "5", "6", "7", "8", "9", "@", "a", "b", "c", "d", "e", "f", "g", "h", "i", "j", "k", "l", "m", "n", "o", "p", "q", "r", "s", "t", "u", "v", "w", "x", "y", "z">>
Ord == [c \in {CodePoints[k] : k \in 1..Len(CodePoints)} |->
           CHOOSE k \in 1..Len(CodePoints) : CodePoints[k] = c]
LexLess(a, b) ==
    \E k \in 1..(Len(b)) :
        /\ k <= Len(a) + 1
        /\ \A j \in 1..(k - 1) : a[j] = b[j]
        /\ (k = Len(a) + 1 \/ Ord[a[k]] < Ord[b[k]])

\* the candidates of the best priority class present
BestClass ==
    IF \E f \in found : ~HasGenericToken(f)
    THEN {f \in found : ~HasGenericToken(f)}
    ELSE found

\* C9 as stated: the returned address is the lexicographically-first address
\* of the best priority class present on the stopping page.
C9_LexicographicFirst ==
    (scrape_pc = "done" /\ found # {}) =>
        /\ email \in BestClass
        /\ \A f \in BestClass : f = email \/ LexLess(email, f)

\* validation as the claim states it, on the part after the last @
PassesValidation(address) ==
    /\ \E k \in 1..Len(address) : address[k] = "@"
    /\ LET last == CHOOSE k \in 1..Len(address) :
                       address[k] = "@" /\ \A j \in (k + 1)..Len(address) : address[j] # "@"
           domain == SubSeq(address, last + 1, Len(address))
       IN  /\ \A ext \in _FAKE_TLDS : ~EndsWith(domain, ext)
           /\ \A bl \in _DOMAIN_BLACKLIST : ~Contains(bl, domain)
           /\ \E k \in 1..Len(domain) : domain[k] = "."

\* C10: the returned address is empty or passes validation, whichever
\* extraction produced it; a banner@2x.png fragment is never returned.
C10_ReturnedIsValid ==
    scrape_pc = "done" =>
        /\ email = <<>> \/ PassesValidation(email)
        /\ email # Lower(MatchBanner)

\* C10 witness: an address was returned from a page that also held the
\* banner@2x.png fragment and an invalid mailto anchor.
C10_Witness ==
    /\ scrape_pc = "done"
    /\ email # <<>>
    /\ MatchBanner \in outcome.matches
    /\ HrefLocalhost \in outcome.hrefs

\* ------------------------------------------------------------------------
\* Properties of the search_places loop
\* ------------------------------------------------------------------------
\* C14: the first request of a call carries no pageToken; any later request
\* is sent only when fewer than max_results records are accumulated and the
\* previous response was a page that was not empty and carried a token, and
\* its pageToken is the token of that previous response.
C14_TokenChain ==
    [][(n_requests' = n_requests + 1)
        => IF n_requests = 0
           THEN payload_token' = NoToken
           ELSE /\ Len(results) < max_results
                /\ response.kind = "json"
                /\ response.places # <<>>
                /\ Truthy(response.token)
                /\ payload_token' = response.token]_vars

\* C14 witness: a third request is in flight and carries a token.
C14_Witness ==
    /\ pc = "wait"
    /\ n_requests = 3
    /\ payload_token \in Tokens
    /\ payload_token = page_token

\* C15: a call of search_places never issues more than MaxPages requests.
C15_AtMostMaxPages == n_requests <= MaxPages

\* C16: every request but the first of a call is preceded by its own
\* time.sleep: after n requests at least n - 1 delays were made.
C16_DelayBetweenRequests == n_requests <= n_sleeps + 1

\* C16 witness: a third request is in flight after two delays.
C16_Witness ==
    /\ pc = "wait"
    /\ n_requests = 3
    /\ n_sleeps = 2

\* the ids of the records of a list
IdsOf(places) == {places[k].id : k \in 1..Len(places)}

\* C17: seen_ids is the set of ids of results, between the pages and after
\* each record of a page: a record the filters reject enters neither, so it
\* does not count toward max_results and its id is examined again when it
\* comes back.
C17_SeenIsAccumulated ==
    /\ [](seen_ids = IdsOf(results))
    /\ [][(pc = "wait" /\ response'.kind = "json")
           => \A k \in 0..Len(response'.places) :
                LET acc == ForPlaces(SubSeq(response'.places, 1, k), results,
                                     seen_ids, excluded, min_reviews)
                IN  acc.seen_ids = IdsOf(acc.results)]_vars

\* C17 witness: the last page held the id "a" twice; the first record was
\* rejected by the name filter and left seen_ids alone, so the second one
\* was examined and accumulated.
C17_Witness ==
    /\ pc \in {"sleep", "return"}
    /\ Len(response.places) = 2
    /\ response.places[1] = Place("a", NameKfc, 2)
    /\ response.places[2] = Place("a", NameCafe, 2)
    /\ \E kw \in FilterKeywords : Contains(kw, Lower(NameKfc))
    /\ results = << Place("a", NameCafe, 2) >>
    /\ seen_ids = {"a"}

\* the positions of a page whose records are kept, given the ids accumulated
\* so far: the record has an id, passes the Result Filter, its id is not
\* accumulated and no earlier record of the page with that id passes
KeptPositions(page, ids) ==
    {k \in 1..Len(page) :
        /\ page[k].id # NoId
        /\ PassesResultFilter(page[k])
        /\ page[k].id \notin ids
        /\ \A j \in 1..(k - 1) :
               ~(page[j].id = page[k].id /\ PassesResultFilter(page[j]))}

\* the records of a page at the positions pos, in page order
RestrictedTo(page, pos) ==
    [n \in 1..Cardinality(pos) |->
        page[CHOOSE k \in pos : Cardinality({j \in pos : j <= k}) = n]]

\* C18: the returned list is the first max_results records (all of them
\* when there are fewer) of the pages received, taken in request order and
\* page order, keeping for each id the first record that passes the Result
\* Filter and nothing else. Stated step by step: a received page appends to
\* results its kept records in page order, no other step changes results,
\* and the value returned is the prefix of results.
C18_StablePrefix ==
    /\ [][IF pc = "wait" /\ response'.kind = "json"
          THEN results' = results \o
                   RestrictedTo(response'.places,
                                KeptPositions(response'.places, IdsOf(results)))
          ELSE results' = results]_vars
    /\ [](pc = "done" =>
            /\ Len(returned) = IF Len(results) < max_results
                               THEN Len(results) ELSE max_results
            /\ \A k \in 1..Len(returned) : returned[k] = results[k])

\* C18 witness: two pages were received; the first gave "b", the second
\* held "a" twice, first with a name the filter rejects, and "b" again; the
\* call returned "b" then the accepted record of "a".
C18_Witness ==
    /\ pc = "done"
    /\ n_requests = 2
    /\ max_results = 2
    /\ min_reviews = 0
    /\ response.places = << Place("a", NameKfc, 2), Place("a", NameCafe, 2) >>
    /\ \E kw \in FilterKeywords : Contains(kw, Lower(NameKfc))
    /\ returned = << Place("b", NameCafe, 1), Place("a", NameCafe, 2) >>

\* ------------------------------------------------------------------------
\* Properties of enrich_with_details
\* ------------------------------------------------------------------------
\* the progress_callback calls expected after n records of total
ProgressCalls(n, total) == [k \in 1..n |-> <<k, total>>]

\* C11: whatever the input list and whatever the lookups answer,
\* enrich_with_details is never left by an exception and handles the records
\* in input order: a lookup is made for exactly the records with an id, a
\* record whose lookup failed (or was not made, or is still to come) equals
\* the record passed, the list keeps its length and is the value returned
\* once every record was handled, and a progress callback that was passed
\* has been called exactly with (1, total), ..., (k, total) after k records.
C11_EveryRecordProcessed ==
    det_pc # "idle" =>
        LET total == Len(det_input)
        IN  /\ det_pc # "raised"
            /\ Len(det_places) = total
            /\ Len(det_log) = det_i
            /\ \A k \in 1..total :
                 (k > det_i \/ det_log[k].kind # "json")
                     => det_places[k] = det_input[k]
            /\ \A k \in 1..det_i :
                 (det_log[k].kind # "none") <=> HasId(det_input[k])
            /\ det_calls = IF det_callback THEN ProgressCalls(det_i, total)
                           ELSE <<>>
            /\ det_pc = "done" => (det_i = total /\ det_returned = det_places)

\* C11 witness: a call over two records returned; the first lookup failed
\* on a timeout, the second one succeeded and changed its record, and the
\* callback was called for both.
C11_Witness ==
    /\ det_pc = "done"
    /\ Len(det_input) = 2
    /\ det_callback
    /\ det_log[1].kind = "transport"
    /\ det_log[1].exc = "Timeout"
    /\ det_log[2].kind = "json"
    /\ det_returned[1] = det_input[1]
    /\ det_returned[2] # det_input[2]
    /\ det_calls = << <<1, 2>>, <<2, 2>> >>

\* ------------------------------------------------------------------------
\* Properties of enrich_with_emails
\* ------------------------------------------------------------------------
\* C12: enrich_with_emails requests pages only for records with a non-empty
\* website, and only pages of that website; once a record is handled its
\* email key was assigned exactly once and holds what
\* scrape_email_from_website returned, which is "" for a record without a
\* website; records not handled yet were not assigned; a progress callback
\* that was passed has been called with (k, total) once per handled record,
\* with or without a website; the list is the value returned.
C12_EmailSetOncePerRecord ==
    em_pc # "idle" =>
        LET total == Len(em_places)
        IN  /\ Len(em_log) = em_i
            /\ \A k \in 1..total :
                 IF k <= em_i
                 THEN LET site == em_places[k].websiteUri
                          run == em_log[k]
                      IN  /\ em_writes[k] = 1
                          /\ em_places[k].email = run.email
                          /\ run.fetched # <<>> => site # EmptyUrl
                          /\ site = EmptyUrl => em_places[k].email = <<>>
                          /\ \A j \in 1..Len(run.fetched) :
                               run.fetched[j].netloc = site.netloc
                 ELSE em_writes[k] = 0
            /\ em_calls = IF em_callback THEN ProgressCalls(em_i, total)
                          ELSE <<>>
            /\ em_pc = "done" => (em_i = total /\ em_returned = em_places)

\* C12 witness: a call over two records returned; the first record has no
\* website and its old address was replaced by "" without a request, the
\* second has one, pages were requested and an address was found; the
\* callback was called for both.
C12_Witness ==
    /\ em_pc = "done"
    /\ Len(em_places) = 2
    /\ em_callback
    /\ em_places[1].websiteUri = EmptyUrl
    /\ em_log[1].fetched = <<>>
    /\ em_returned[1].email = <<>>
    /\ em_log[2].fetched # <<>>
    /\ em_returned[2].email # <<>>
    /\ em_calls = << <<1, 2>>, <<2, 2>> >>

\* C13: a lookup that succeeds for the record at position k sets each key
\* the response holds to the response's value on that record, keeps each key
\* the response does not hold (the email key among them) at its previous
\* value, and changes no other record of the list.
C13_UpdateFrame ==
    [][(Len(det_log') = Len(det_log) + 1 /\ det_log'[Len(det_log')].kind = "json")
        => LET k == Len(det_log')
               body == det_log'[k].body
           IN  /\ Len(det_places') = Len(det_places)
               /\ det_places'[k].id =
                      IF body.id # Absent THEN body.id ELSE det_places[k].id
               /\ det_places'[k].nationalPhoneNumber =
                      IF body.nationalPhoneNumber # Absent
                      THEN body.nationalPhoneNumber
                      ELSE det_places[k].nationalPhoneNumber
               /\ det_places'[k].email =
                      IF body.email # Absent THEN body.email
                      ELSE det_places[k].email
               /\ \A j \in 1..Len(det_places) :
                      j # k => det_places'[j] = det_places[j]]_vars

\* C13 witness: the first of two records held an id, a phone number and an
\* email; its lookup returned another id and phone number and no email, and
\* the record now holds the new id and phone number and its old email.
C13_Witness ==
    /\ Len(det_input) = 2
    /\ det_i = 1
    /\ det_input[1] = Dict("a", "p0", "e0")
    /\ det_log[1] = Answer("json", "none", Dict("z", "p1", Absent))
    /\ det_places[1] = Dict("z", "p1", "e0")
    /\ det_places[2] = det_input[2]

====
